---- MODULE Spec2Model ----
(***************************************************************************)
(* PG-Drift: the pairwise metadata diff of src/pg_metadata_diff_results.py *)
(* (class PgMetadataDiffResults).                                          *)
(*                                                                         *)
(* A snapshot (the parsed JSON of one database) is a function from table   *)
(* names to sequences of column descriptors; a column descriptor is a      *)
(* record holding some of the keys column_name, data_type, is_nullable     *)
(* (a Python dict: a key may be absent, and reading it raises KeyError).   *)
(* Strings are TLA+ strings, so the detail texts are built as the          *)
(* f-strings of the source build them.                                     *)
(***************************************************************************)
EXTENDS Integers, Sequences, FiniteSets, TLC

VARIABLES
    metadata_files,   \* self.metadata_files: sequence of [label, filepath]
    metadata_cache,   \* self.metadata_cache: filepath -> snapshot
    metadata_map,     \* local dict of generate_diff_report, in insertion order
    all_differences,  \* local list of generate_diff_report
    pc,               \* position in generate_diff_report
    k,                \* index of the next entry of the load loop
    i,                \* outer index of the comparison loop
    j,                \* inner index of the comparison loop
    log,              \* the "Comparing %s vs %s" records of the current call
    opened,           \* filepath -> number of open(filepath) calls
    parsed,           \* filepath -> number of json.load results stored
    csv,              \* rows of out/ts-schema_differences.csv, <<>> while the
                      \* file does not exist
    written,          \* the current call has written the file
    error,            \* the exception that ended the call, "none" otherwise
    calls,            \* number of calls of generate_diff_report so far
    output_folder,    \* argument of the current call
    timestamp         \* argument of the current call

vars == <<metadata_files, metadata_cache, metadata_map, all_differences,
          pc, k, i, j, log, opened, parsed, csv, written, error, calls,
          output_folder, timestamp>>

-----------------------------------------------------------------------------
(* Bounds of the model.                                                    *)

\* longest column list of the richly populated table
MaxColumns == 2
\* longest list of (label, filepath) entries given to the constructor
MaxDatabases == 3
\* calls of generate_diff_report on one object
MaxCalls == 2

-----------------------------------------------------------------------------
(* Python helpers.                                                         *)

\* Code point order of the names the model uses, ascending (str.__lt__).
Lexical == <<"accounts", "created", "email", "id", "orders", "users">>

Rank(s) == CHOOSE r \in 1..Len(Lexical) : Lexical[r] = s

StrLess(a, b) == Rank(a) < Rank(b)

\* min(S) under str.__lt__
Least(S) == CHOOSE a \in S : \A b \in S : a = b \/ StrLess(a, b)

RECURSIVE SortedDescending(_)
SortedDescending(S) ==
    IF S = {} THEN <<>>
    ELSE SortedDescending(S \ {Least(S)}) \o <<Least(S)>>

\* sorted(S) for a set of strings: the ascending list
RECURSIVE sorted(_)
sorted(S) ==
    IF S = {} THEN <<>>
    ELSE <<Least(S)>> \o sorted(S \ {Least(S)})

\* sep.join(parts)
RECURSIVE join(_, _)
join(sep, parts) ==
    IF parts = <<>> THEN ""
    ELSE IF Len(parts) = 1 THEN parts[1]
    ELSE parts[1] \o sep \o join(sep, Tail(parts))

\* key in dict
HasKey(d, key) == key \in DOMAIN d

Range(s) == {s[n] : n \in 1..Len(s)}

RECURSIVE Flatten(_)
Flatten(ss) == IF ss = <<>> THEN <<>> ELSE Head(ss) \o Flatten(Tail(ss))

-----------------------------------------------------------------------------
(* _get_all_tables                                                         *)

_get_all_tables(metadata) == DOMAIN metadata

-----------------------------------------------------------------------------
(* _compare_columns                                                        *)

\* {col['column_name']: col for col in columns}: the last descriptor of a
\* name wins.
ColsDict(columns) ==
    [name \in {columns[n].column_name : n \in 1..Len(columns)} |->
        columns[CHOOSE n \in 1..Len(columns) :
                    /\ columns[n].column_name = name
                    /\ \A m \in (n+1)..Len(columns) : columns[m].column_name # name]]

MissingColumnNullableOnly(table_name, col_name, col, label1, label2) ==
    [diff_type   |-> "MISSING_COLUMN",
     table_name  |-> table_name,
     column_name |-> col_name,
     detail      |-> "Column exists in " \o label1 \o " but not in " \o label2
                     \o " (type: " \o col.is_nullable
                     \o ", nullable: " \o col.is_nullable \o ")",
     db1         |-> label1,
     db2         |-> label2]

MissingColumnDiff(table_name, col_name, col, label1, label2) ==
    [diff_type   |-> "MISSING_COLUMN",
     table_name  |-> table_name,
     column_name |-> col_name,
     detail      |-> "Column exists in " \o label1 \o " but not in " \o label2
                     \o " (type: " \o col.data_type
                     \o ", nullable: " \o col.is_nullable \o ")",
     db1         |-> label1,
     db2         |-> label2]

ExtraColumnLabelsNotSwapped(table_name, col_name, col, label1, label2) ==
    [diff_type   |-> "EXTRA_COLUMN",
     table_name  |-> table_name,
     column_name |-> col_name,
     detail      |-> "Column exists in " \o label1 \o " but not in " \o label2
                     \o " (type: " \o col.data_type
                     \o ", nullable: " \o col.is_nullable \o ")",
     db1         |-> label1,
     db2         |-> label2]

ExtraColumnDiff(table_name, col_name, col, label1, label2) ==
    [diff_type   |-> "EXTRA_COLUMN",
     table_name  |-> table_name,
     column_name |-> col_name,
     detail      |-> "Column exists in " \o label2 \o " but not in " \o label1
                     \o " (type: " \o col.data_type
                     \o ", nullable: " \o col.is_nullable \o ")",
     db1         |-> label1,
     db2         |-> label2]

DetailPartsTypeLast(col1, col2, label1, label2) ==
    (IF col1.is_nullable # col2.is_nullable
     THEN <<"nullable: " \o label1 \o "=" \o col1.is_nullable
            \o " vs " \o label2 \o "=" \o col2.is_nullable>>
     ELSE <<>>)
    \o
    (IF col1.data_type # col2.data_type
     THEN <<"data_type: " \o label1 \o "=" \o col1.data_type
            \o " vs " \o label2 \o "=" \o col2.data_type>>
     ELSE <<>>)

\* detail_parts of one common column
DetailParts(col1, col2, label1, label2) ==
    (IF col1.data_type # col2.data_type
     THEN <<"data_type: " \o label1 \o "=" \o col1.data_type
            \o " vs " \o label2 \o "=" \o col2.data_type>>
     ELSE <<>>)
    \o
    (IF col1.is_nullable # col2.is_nullable
     THEN <<"nullable: " \o label1 \o "=" \o col1.is_nullable
            \o " vs " \o label2 \o "=" \o col2.is_nullable>>
     ELSE <<>>)

MismatchComparesWrongField(table_name, col_name, col1, col2, label1, label2) ==
    IF col1.data_type # col2.is_nullable \/ col1.is_nullable # col2.is_nullable
    THEN <<[diff_type   |-> "COLUMN_MISMATCH",
            table_name  |-> table_name,
            column_name |-> col_name,
            detail      |-> join("; ", DetailParts(col1, col2, label1, label2)),
            db1         |-> label1,
            db2         |-> label2]>>
    ELSE <<>>

\* the body of the loop over common columns: one Difference or none
MismatchDiff(table_name, col_name, col1, col2, label1, label2) ==
    IF col1.data_type # col2.data_type \/ col1.is_nullable # col2.is_nullable
    THEN <<[diff_type   |-> "COLUMN_MISMATCH",
            table_name  |-> table_name,
            column_name |-> col_name,
            detail      |-> join("; ", DetailParts(col1, col2, label1, label2)),
            db1         |-> label1,
            db2         |-> label2]>>
    ELSE <<>>

\* KeyError inside _compare_columns: a descriptor without column_name when
\* the lookup dictionaries are built, or a descriptor the loops read that
\* lacks data_type or is_nullable.
ColumnsKeyError(columns1, columns2) ==
    \/ \E c \in Range(columns1) \cup Range(columns2) : ~HasKey(c, "column_name")
    \/ LET cols1_dict == ColsDict(columns1)
           cols2_dict == ColsDict(columns2)
           read == {cols1_dict[n] : n \in DOMAIN cols1_dict}
                   \cup {cols2_dict[n] : n \in DOMAIN cols2_dict}
       IN  \E c \in read : ~HasKey(c, "data_type") \/ ~HasKey(c, "is_nullable")

_compare_columns(table_name, columns1, columns2, label1, label2) ==
    IF ColumnsKeyError(columns1, columns2)
    THEN [raised |-> TRUE, differences |-> <<>>]
    ELSE
    LET cols1_dict == ColsDict(columns1)
        cols2_dict == ColsDict(columns2)
        cols1_names == DOMAIN cols1_dict
        cols2_names == DOMAIN cols2_dict
        only_in_db1 == sorted(cols1_names \ cols2_names)
        only_in_db2 == sorted(cols2_names \ cols1_names)
        common_columns == sorted(cols1_names \cap cols2_names)
        missing == [n \in 1..Len(only_in_db1) |->
                       MissingColumnDiff(table_name, only_in_db1[n],
                                         cols1_dict[only_in_db1[n]], label1, label2)]
        extra == [n \in 1..Len(only_in_db2) |->
                       ExtraColumnDiff(table_name, only_in_db2[n],
                                       cols2_dict[only_in_db2[n]], label1, label2)]
        mismatch == Flatten([n \in 1..Len(common_columns) |->
                       MismatchDiff(table_name, common_columns[n],
                                    cols1_dict[common_columns[n]],
                                    cols2_dict[common_columns[n]], label1, label2)])
    IN  [raised |-> FALSE, differences |-> missing \o extra \o mismatch]

-----------------------------------------------------------------------------
(* _compare_tables                                                         *)

MissingTableDiff(table, label1, label2) ==
    [diff_type   |-> "MISSING_TABLE",
     table_name  |-> table,
     column_name |-> "",
     detail      |-> "Table exists in " \o label1 \o " but not in " \o label2,
     db1         |-> label1,
     db2         |-> label2]

ExtraTableAsMissing(table, label1, label2) ==
    [diff_type   |-> "MISSING_TABLE",
     table_name  |-> table,
     column_name |-> "",
     detail      |-> "Table exists in " \o label2 \o " but not in " \o label1,
     db1         |-> label1,
     db2         |-> label2]

ExtraTableDiff(table, label1, label2) ==
    [diff_type   |-> "EXTRA_TABLE",
     table_name  |-> table,
     column_name |-> "",
     detail      |-> "Table exists in " \o label2 \o " but not in " \o label1,
     db1         |-> label1,
     db2         |-> label2]

_compare_tables(label1, metadata1, label2, metadata2) ==
    LET tables1 == _get_all_tables(metadata1)
        tables2 == _get_all_tables(metadata2)
        only_in_db1 == sorted(tables1 \ tables2)
        only_in_db2 == sorted(tables2 \ tables1)
        common_tables == sorted(tables1 \cap tables2)
        missing == [n \in 1..Len(only_in_db1) |->
                       MissingTableDiff(only_in_db1[n], label1, label2)]
        extra == [n \in 1..Len(only_in_db2) |->
                       ExtraTableDiff(only_in_db2[n], label1, label2)]
        col_diffs == [n \in 1..Len(common_tables) |->
                       _compare_columns(common_tables[n],
                                        metadata1[common_tables[n]],
                                        metadata2[common_tables[n]],
                                        label1, label2)]
    IN  IF \E n \in 1..Len(common_tables) : col_diffs[n].raised
        THEN [raised |-> TRUE, differences |-> <<>>]
        ELSE [raised |-> FALSE,
              differences |-> missing \o extra
                  \o Flatten([n \in 1..Len(common_tables) |-> col_diffs[n].differences])]

-----------------------------------------------------------------------------
(* Inputs.                                                                 *)

Col(name, type, nullable) ==
    [column_name |-> name, data_type |-> type, is_nullable |-> nullable]

\* The labels and the paths, in the order in which a list of entries may
\* introduce them.
LabelOrder == <<"A", "B", "C", "D">>

PathOrder == <<"db1.json", "db2.json">>

Labels == {LabelOrder[n] : n \in 1..Len(LabelOrder)}

Filepaths == {PathOrder[n] : n \in 1..Len(PathOrder)}

\* Well-formed column descriptors: every declaration of id over two types
\* and both nullabilities, two of email and one of created.
ColumnUniverse ==
    [column_name : {"id"}, data_type : {"bigint", "int"}, is_nullable : {"NO", "YES"}]
    \cup {Col("email", "text", "YES"), Col("email", "text", "NO"),
          Col("created", "date", "NO")}

BoundedSeq(S, n) == UNION {[1..m -> S] : m \in 0..n}

TableNames == {"accounts", "orders", "users"}

\* Snapshots of the one table users, with every column list over
\* ColumnUniverse up to MaxColumns (column order and repeated names
\* included).
ColumnSnapshots == {[users |-> cols] : cols \in BoundedSeq(ColumnUniverse, MaxColumns)}

\* The column lists of the snapshots of several tables: two per table.
ColumnLists(table) ==
    IF table = "users"
    THEN {<<Col("id", "int", "NO"), Col("email", "text", "YES")>>,
          <<Col("email", "text", "YES"), Col("id", "int", "NO")>>}
    ELSE IF table = "orders"
    THEN {<<Col("id", "int", "NO"), Col("created", "date", "NO")>>,
          <<Col("id", "bigint", "NO"), Col("email", "text", "YES")>>}
    ELSE {<<Col("id", "int", "NO")>>,
          <<Col("id", "int", "YES"), Col("email", "text", "YES")>>}

\* Every snapshot over a subset of TableNames with lists from ColumnLists.
TableSnapshots ==
    UNION {{f \in [T -> UNION {ColumnLists(t) : t \in T}] :
               \A t \in T : f[t] \in ColumnLists(t)} : T \in SUBSET TableNames}

\* The snapshots a pair comparison is checked on.
Snapshots == ColumnSnapshots \cup TableSnapshots

\* Descriptors that lack a required key.
NoNullable == [column_name |-> "id", data_type |-> "int"]
NoType == [column_name |-> "id", is_nullable |-> "NO"]
NoName == [data_type |-> "int", is_nullable |-> "NO"]

\* The snapshots a file of a whole run may hold.
RunSnapshots ==
    {[users |-> <<Col("id", "int", "NO"), Col("email", "text", "YES")>>],
     [users |-> <<Col("id", "int", "NO")>>],
     [orders |-> <<Col("id", "int", "NO")>>, users |-> <<Col("id", "bigint", "YES")>>],
     [orders |-> <<NoNullable>>, users |-> <<Col("id", "int", "NO")>>],
     [accounts |-> <<NoName>>, users |-> <<Col("id", "int", "NO")>>],
     [accounts |-> <<NoType, Col("email", "text", "YES")>>]}

\* What open()/json.load finds at a path: a snapshot, or a failure (the
\* file is missing or does not parse).
FileContents ==
    {[ok |-> TRUE, data |-> s] : s \in RunSnapshots}
    \cup {[ok |-> FALSE, data |-> [users |-> <<>>]]}

Entries == [label : Labels, filepath : Filepaths]

\* names takes the values of order in the order of order: a value is used
\* for the first time only after the value before it.
InOrderOfFirstUse(names, order) ==
    \A n \in 1..Len(names) :
        \E r \in 1..Len(order) :
            /\ names[n] = order[r]
            /\ r = 1 \/ \E m \in 1..(n - 1) : names[m] = order[r - 1]

\* The lists of entries given to the constructor: every list of up to
\* MaxDatabases entries, labels and paths repeated or not, up to a renaming
\* of the labels and of the paths (the code reads neither).
EntryLists ==
    {fs \in BoundedSeq(Entries, MaxDatabases) :
        /\ InOrderOfFirstUse([n \in 1..Len(fs) |-> fs[n].label], LabelOrder)
        /\ InOrderOfFirstUse([n \in 1..Len(fs) |-> fs[n].filepath], PathOrder)}

-----------------------------------------------------------------------------
(* The ordered dict metadata_map, as a list of [label, metadata].          *)

DictKeys(d) == [n \in 1..Len(d) |-> d[n].label]

DictGet(d, label) == d[CHOOSE n \in 1..Len(d) : d[n].label = label].metadata

\* d[label] = metadata: an existing key keeps its place
DictSet(d, label, metadata) ==
    IF \E n \in 1..Len(d) : d[n].label = label
    THEN [n \in 1..Len(d) |->
             IF d[n].label = label THEN [label |-> label, metadata |-> metadata]
             ELSE d[n]]
    ELSE Append(d, [label |-> label, metadata |-> metadata])

-----------------------------------------------------------------------------
(* _load_metadata                                                          *)

LoadAlwaysReads(filepath, content) ==
    IF ~content.ok
    THEN [raised |-> TRUE, cache |-> metadata_cache,
          opened |-> [opened EXCEPT ![filepath] = @ + 1],
          parsed |-> parsed,
          value |-> content.data]
    ELSE [raised |-> FALSE,
          cache |-> [f \in DOMAIN metadata_cache \cup {filepath} |->
                        IF f = filepath THEN content.data ELSE metadata_cache[f]],
          opened |-> [opened EXCEPT ![filepath] = @ + 1],
          parsed |-> [parsed EXCEPT ![filepath] = @ + 1],
          value |-> content.data]

\* content is what the file holds if it is opened now.
_load_metadata(filepath, content) ==
    IF filepath \in DOMAIN metadata_cache
    THEN [raised |-> FALSE, cache |-> metadata_cache, opened |-> opened,
          parsed |-> parsed,
          value |-> metadata_cache[filepath]]
    ELSE IF ~content.ok
    THEN [raised |-> TRUE, cache |-> metadata_cache,
          opened |-> [opened EXCEPT ![filepath] = @ + 1],
          parsed |-> parsed,
          value |-> content.data]
    ELSE [raised |-> FALSE,
          cache |-> [f \in DOMAIN metadata_cache \cup {filepath} |->
                        IF f = filepath THEN content.data ELSE metadata_cache[f]],
          opened |-> [opened EXCEPT ![filepath] = @ + 1],
          parsed |-> [parsed EXCEPT ![filepath] = @ + 1],
          value |-> content.data]

-----------------------------------------------------------------------------
(* generate_diff_report                                                    *)

\* The output_folder arguments: a directory that exists or can be made,
\* and the path of a regular file, on which mkdir raises FileExistsError.
OutputFolders == {"out", "out.txt"}

IsRegularFile(folder) == folder = "out.txt"

\* The timestamp arguments: one that names a file of the output folder,
\* and one with a "/", which names a file of a directory that is not there.
Timestamps == {"ts", "2026/10/29"}

HasSlash(ts) == ts = "2026/10/29"

headers == <<"Diff Type", "Table Name", "Column Name", "Database 1",
             "Database 2", "Detail">>

Row(diff) == <<diff.diff_type, diff.table_name, diff.column_name,
               diff.db1, diff.db2, diff.detail>>

\* labels = list(metadata_map.keys())
labels == DictKeys(metadata_map)

\* The state after __init__.
Init ==
    /\ metadata_files \in EntryLists
    /\ metadata_cache = [f \in {} |-> <<>>]
    /\ metadata_map = <<>>
    /\ all_differences = <<>>
    /\ pc = "idle"
    /\ k = 1
    /\ i = 1
    /\ j = 2
    /\ log = <<>>
    /\ opened = [f \in Filepaths |-> 0]
    /\ parsed = [f \in Filepaths |-> 0]
    /\ csv = <<>>
    /\ written = FALSE
    /\ error = "none"
    /\ calls = 0
    /\ output_folder = "out"
    /\ timestamp = "ts"

\* generate_diff_report(output_folder, timestamp) is called, for the first
\* time or after an earlier call returned or raised: the locals of the
\* earlier call are gone, the output directory is made (mkdir raises when
\* the path is a regular file) and metadata_map starts empty.  The cache and
\* the file of an earlier call remain.
Start ==
    /\ pc \in {"idle", "done", "error"}
    /\ calls < MaxCalls
    /\ calls' = calls + 1
    /\ \E folder \in OutputFolders, ts \in Timestamps :
         /\ output_folder' = folder
         /\ timestamp' = ts
         /\ IF IsRegularFile(folder)
            THEN pc' = "error" /\ error' = "FileExistsError"
            ELSE pc' = "load" /\ error' = "none"
    /\ metadata_map' = <<>>
    /\ all_differences' = <<>>
    /\ k' = 1
    /\ i' = 1
    /\ j' = 2
    /\ log' = <<>>
    /\ written' = FALSE
    /\ UNCHANGED <<metadata_files, metadata_cache, opened, parsed, csv>>

\* One iteration of the loop over self.metadata_files.
LoadStep ==
    /\ pc = "load"
    /\ k <= Len(metadata_files)
    /\ \E content \in FileContents :
         LET entry == metadata_files[k]
             r == _load_metadata(entry.filepath, content)
         IN  /\ metadata_cache' = r.cache
             /\ opened' = r.opened
             /\ parsed' = r.parsed
             /\ IF r.raised
                THEN /\ pc' = "error"
                     /\ error' = "LoadError"
                     /\ UNCHANGED <<metadata_map, k>>
                ELSE /\ metadata_map' = DictSet(metadata_map, entry.label, r.value)
                     /\ k' = k + 1
                     /\ UNCHANGED <<pc, error>>
    /\ UNCHANGED <<metadata_files, all_differences, i, j, log, csv, written,
                   calls, output_folder, timestamp>>

\* The load loop is over: all_differences = [] and the label list is taken.
BeginCompare ==
    /\ pc = "load"
    /\ k > Len(metadata_files)
    /\ pc' = "compare"
    /\ all_differences' = <<>>
    /\ i' = 1
    /\ j' = 2
    /\ UNCHANGED <<metadata_files, metadata_cache, metadata_map, k, log, opened,
                   parsed, csv, written, error, calls, output_folder, timestamp>>

\* all_differences.extend(diffs)
Extend(differences, diffs) == differences \o diffs

NextPairFromSelf(a, b, n) ==
    IF b < n THEN <<a, b + 1>> ELSE <<a + 1, a + 1>>

\* The pair after (a, b) in: for i in range(n): for j in range(i + 1, n).
\* A pair whose second index exceeds n ends the loops.
NextPair(a, b, n) ==
    IF b < n THEN <<a, b + 1>> ELSE <<a + 1, a + 2>>

\* One iteration of the inner loop: compare labels[i] with labels[j].
CompareStep ==
    /\ pc = "compare"
    /\ j <= Len(labels)
    /\ LET label1 == labels[i]
           label2 == labels[j]
           r == _compare_tables(label1, DictGet(metadata_map, label1),
                                label2, DictGet(metadata_map, label2))
           next == NextPair(i, j, Len(labels))
       IN  /\ log' = Append(log, <<label1, label2>>)
           /\ IF r.raised
              THEN /\ pc' = "error"
                   /\ error' = "KeyError"
                   /\ UNCHANGED <<all_differences, i, j>>
              ELSE /\ all_differences' = Extend(all_differences, r.differences)
                   /\ i' = next[1]
                   /\ j' = next[2]
                   /\ UNCHANGED <<pc, error>>
    /\ UNCHANGED <<metadata_files, metadata_cache, metadata_map, k, opened,
                   parsed, csv, written, calls, output_folder, timestamp>>

\* the rows csv.writer writes: the header, then one row per Difference
Rows(differences) ==
    <<headers>> \o [n \in 1..Len(differences) |-> Row(differences[n])]

\* The loops are over.  Nothing differs: the notice, and the call returns.
\* Otherwise csv_path is opened for writing, which raises when the
\* timestamp names a missing directory or something at the path cannot be
\* written (can_open); then the rows are written, the file is closed, and
\* _print_diff_summary prints bullet characters, which raises
\* UnicodeEncodeError when the console cannot encode them (can_print).
Finish ==
    /\ pc = "compare"
    /\ j > Len(labels)
    /\ IF all_differences = <<>>
       THEN /\ pc' = "done"
            /\ UNCHANGED <<csv, written, error>>
       ELSE \E can_open \in BOOLEAN, can_print \in BOOLEAN :
              /\ HasSlash(timestamp) => ~can_open
              /\ IF ~can_open
                 THEN /\ pc' = "error"
                      /\ error' = "OSError"
                      /\ UNCHANGED <<csv, written>>
                 ELSE /\ csv' = Rows(all_differences)
                      /\ written' = TRUE
                      /\ IF can_print
                         THEN pc' = "done" /\ UNCHANGED error
                         ELSE pc' = "error" /\ error' = "UnicodeEncodeError"
    /\ UNCHANGED <<metadata_files, metadata_cache, metadata_map, all_differences,
                   k, i, j, log, opened, parsed, calls, output_folder, timestamp>>

Next == Start \/ LoadStep \/ BeginCompare \/ CompareStep \/ Finish

Spec == Init /\ [][Next]_vars

-----------------------------------------------------------------------------
(* The comparison of one pair, on every pair of Snapshots: the state after *)
(* two files holding db1 and db2 were loaded under the labels A and B in   *)
(* the first call.                                                         *)

PairInit ==
    /\ \E s \in Snapshots, t \in Snapshots :
         /\ metadata_map = <<[label |-> "A", metadata |-> s],
                             [label |-> "B", metadata |-> t]>>
         /\ metadata_cache = [f \in Filepaths |->
                                 IF f = "db1.json" THEN s ELSE t]
    /\ metadata_files = <<[label |-> "A", filepath |-> "db1.json"],
                          [label |-> "B", filepath |-> "db2.json"]>>
    /\ all_differences = <<>>
    /\ pc = "load"
    /\ k = 3
    /\ i = 1
    /\ j = 2
    /\ log = <<>>
    /\ opened = [f \in Filepaths |-> 1]
    /\ parsed = [f \in Filepaths |-> 1]
    /\ csv = <<>>
    /\ written = FALSE
    /\ error = "none"
    /\ calls = 1
    /\ output_folder = "out"
    /\ timestamp = "ts"

PairNext == BeginCompare \/ CompareStep \/ Finish

PairSpec == PairInit /\ [][PairNext]_vars

-----------------------------------------------------------------------------
(* Properties of one pair comparison (checked under PairSpec).             *)

\* The single pair was compared: all_differences is what _compare_tables
\* returned for (L1, DB1) against (L2, DB2).
Compared == Len(log) = 1 /\ error = "none" /\ Len(metadata_map) = 2

L1 == metadata_map[1].label
L2 == metadata_map[2].label
DB1 == metadata_map[1].metadata
DB2 == metadata_map[2].metadata

TableLevel == {"MISSING_TABLE", "EXTRA_TABLE"}

\* positions of the Differences of a table, and of one column of it
DiffsOfTable(t) ==
    {n \in 1..Len(all_differences) : all_differences[n].table_name = t}

DiffsAt(t, c) ==
    {n \in DiffsOfTable(t) : all_differences[n].column_name = c}

NamesOf(columns) == {c.column_name : c \in Range(columns)}

UniqueNames(columns) ==
    \A m, n \in 1..Len(columns) :
        m # n => columns[m].column_name # columns[n].column_name

\* the descriptor of a name in a list with unique names
ColOf(columns, name) == CHOOSE c \in Range(columns) : c.column_name = name

\* the same declarations on both sides, whatever the order of the lists
SameColumns(columns1, columns2) ==
    \/ columns1 = columns2
    \/ /\ UniqueNames(columns1)
       /\ UniqueNames(columns2)
       /\ Range(columns1) = Range(columns2)

\* C2: a table in exactly one snapshot yields exactly one Difference, of
\* kind MISSING_TABLE (only in db1) or EXTRA_TABLE (only in db2) with an
\* empty column_name, and no column-level Difference; a table in both
\* snapshots with the same column declarations yields no Difference.
C2_TableLevelDiff ==
    Compared =>
        /\ \A t \in DOMAIN DB1 \ DOMAIN DB2 :
             \E n \in 1..Len(all_differences) :
                /\ DiffsOfTable(t) = {n}
                /\ all_differences[n].diff_type = "MISSING_TABLE"
                /\ all_differences[n].column_name = ""
        /\ \A t \in DOMAIN DB2 \ DOMAIN DB1 :
             \E n \in 1..Len(all_differences) :
                /\ DiffsOfTable(t) = {n}
                /\ all_differences[n].diff_type = "EXTRA_TABLE"
                /\ all_differences[n].column_name = ""
        /\ \A t \in DOMAIN DB1 \cap DOMAIN DB2 :
             SameColumns(DB1[t], DB2[t]) => DiffsOfTable(t) = {}

\* db1 holds two tables db2 lacks, and the common table is declared alike
\* with the columns listed in another order.
C2_Witness ==
    /\ Compared
    /\ DOMAIN DB1 = {"accounts", "orders", "users"}
    /\ DOMAIN DB2 = {"users"}
    /\ DB1["users"] # DB2["users"]
    /\ SameColumns(DB1["users"], DB2["users"])
    /\ Len(all_differences) = 2
    /\ all_differences[2].diff_type = "MISSING_TABLE"

ColumnDetail(first, second, col) ==
    "Column exists in " \o first \o " but not in " \o second
    \o " (type: " \o col.data_type \o ", nullable: " \o col.is_nullable \o ")"

\* C3: in a table of both snapshots whose column names are unique on each
\* side, a column only in db1 yields exactly one Difference, a
\* MISSING_COLUMN whose detail carries db1's data_type and is_nullable, and
\* a column only in db2 exactly one, an EXTRA_COLUMN whose detail carries
\* db2's.
C3_OneSidedColumns ==
    Compared =>
        \A t \in DOMAIN DB1 \cap DOMAIN DB2 :
            (UniqueNames(DB1[t]) /\ UniqueNames(DB2[t])) =>
                /\ \A c \in NamesOf(DB1[t]) \ NamesOf(DB2[t]) :
                     \E n \in 1..Len(all_differences) :
                        /\ DiffsAt(t, c) = {n}
                        /\ all_differences[n].diff_type = "MISSING_COLUMN"
                        /\ all_differences[n].detail =
                               ColumnDetail(L1, L2, ColOf(DB1[t], c))
                /\ \A c \in NamesOf(DB2[t]) \ NamesOf(DB1[t]) :
                     \E n \in 1..Len(all_differences) :
                        /\ DiffsAt(t, c) = {n}
                        /\ all_differences[n].diff_type = "EXTRA_COLUMN"
                        /\ all_differences[n].detail =
                               ColumnDetail(L2, L1, ColOf(DB2[t], c))

\* Scenario A: users{id, email} against users{id}: one MISSING_COLUMN for
\* email and nothing else.
C3_Witness ==
    /\ Compared
    /\ DB1 = [users |-> <<Col("id", "int", "NO"), Col("email", "text", "YES")>>]
    /\ DB2 = [users |-> <<Col("id", "int", "NO")>>]
    /\ Len(all_differences) = 1
    /\ all_differences[1].diff_type = "MISSING_COLUMN"
    /\ all_differences[1].column_name = "email"

TypeClause(first, col1, second, col2) ==
    "data_type: " \o first \o "=" \o col1.data_type
    \o " vs " \o second \o "=" \o col2.data_type

NullableClause(first, col1, second, col2) ==
    "nullable: " \o first \o "=" \o col1.is_nullable
    \o " vs " \o second \o "=" \o col2.is_nullable

\* the detail as specified: the data_type clause first, "; " between
MismatchDetail(first, col1, second, col2) ==
    IF col1.data_type # col2.data_type /\ col1.is_nullable # col2.is_nullable
    THEN TypeClause(first, col1, second, col2) \o "; "
         \o NullableClause(first, col1, second, col2)
    ELSE IF col1.data_type # col2.data_type
    THEN TypeClause(first, col1, second, col2)
    ELSE NullableClause(first, col1, second, col2)

\* C4: a column of both sides of a common table (names unique on each
\* side) yields exactly one COLUMN_MISMATCH when data_type or is_nullable
\* differs and no Difference otherwise; the detail holds a clause for each
\* differing field and no other, data_type first, joined by "; ".
C4_ColumnMismatch ==
    Compared =>
        \A t \in DOMAIN DB1 \cap DOMAIN DB2 :
            (UniqueNames(DB1[t]) /\ UniqueNames(DB2[t])) =>
                \A c \in NamesOf(DB1[t]) \cap NamesOf(DB2[t]) :
                    LET col1 == ColOf(DB1[t], c)
                        col2 == ColOf(DB2[t], c)
                    IN  IF col1.data_type # col2.data_type
                           \/ col1.is_nullable # col2.is_nullable
                        THEN \E n \in 1..Len(all_differences) :
                                /\ DiffsAt(t, c) = {n}
                                /\ all_differences[n].diff_type = "COLUMN_MISMATCH"
                                /\ all_differences[n].detail =
                                       MismatchDetail(L1, col1, L2, col2)
                        ELSE DiffsAt(t, c) = {}

\* Scenario C with the types of the model: id differs in type and in
\* nullability, and the detail holds both clauses.
C4_Witness ==
    /\ Compared
    /\ DB1 = [users |-> <<Col("id", "bigint", "NO")>>]
    /\ DB2 = [users |-> <<Col("id", "int", "YES")>>]
    /\ Len(all_differences) = 1
    /\ all_differences[1].diff_type = "COLUMN_MISMATCH"
    /\ all_differences[1].detail =
           "data_type: A=bigint vs B=int; nullable: A=NO vs B=YES"

\* The place of a Difference in the declared order: the kind of table-level
\* Difference, then the table, then the kind of column-level Difference,
\* then the column.
OrderKey(d) ==
    IF d.diff_type = "MISSING_TABLE" THEN <<1, Rank(d.table_name), 0, 0>>
    ELSE IF d.diff_type = "EXTRA_TABLE" THEN <<2, Rank(d.table_name), 0, 0>>
    ELSE IF d.diff_type = "MISSING_COLUMN"
    THEN <<3, Rank(d.table_name), 1, Rank(d.column_name)>>
    ELSE IF d.diff_type = "EXTRA_COLUMN"
    THEN <<3, Rank(d.table_name), 2, Rank(d.column_name)>>
    ELSE <<3, Rank(d.table_name), 3, Rank(d.column_name)>>

KeyLess(x, y) ==
    \E n \in 1..4 : x[n] < y[n] /\ \A m \in 1..(n-1) : x[m] = y[m]

\* C6: the result of one pair lists the MISSING_TABLEs, then the
\* EXTRA_TABLEs, then the column-level Differences table by table, and per
\* table the MISSING_COLUMNs, the EXTRA_COLUMNs, the COLUMN_MISMATCHes, each
\* run strictly ascending by name, whatever the order of the input.
C6_PairOrdering ==
    Compared =>
        \A n \in 1..(Len(all_differences) - 1) :
            KeyLess(OrderKey(all_differences[n]), OrderKey(all_differences[n+1]))

\* Two COLUMN_MISMATCHes in one table: both snapshots list id before
\* email, the two columns are declared differently on the two sides, and
\* the result lists email before id.
C6_Witness ==
    /\ Compared
    /\ DB1 = [users |-> <<Col("id", "int", "NO"), Col("email", "text", "YES")>>]
    /\ DB2 = [users |-> <<Col("id", "bigint", "NO"), Col("email", "text", "NO")>>]
    /\ Len(all_differences) = 2
    /\ \A n \in 1..2 : all_differences[n].diff_type = "COLUMN_MISMATCH"
    /\ all_differences[1].column_name = "email"
    /\ all_differences[2].column_name = "id"

\* Every kind at once: a table of db1 only, one of db2 only, and a common
\* table with a missing, an extra and a mismatching column.
C6_WitnessKinds ==
    /\ Compared
    /\ DOMAIN DB1 = {"orders", "users"}
    /\ DOMAIN DB2 = {"accounts", "orders"}
    /\ [n \in 1..Len(all_differences) |-> all_differences[n].diff_type]
           = <<"MISSING_TABLE", "EXTRA_TABLE", "MISSING_COLUMN", "EXTRA_COLUMN",
               "COLUMN_MISMATCH">>

\* Two column-level groups: both common tables differ, so the result
\* holds the Differences of accounts before those of orders.
C6_WitnessGroups ==
    /\ Compared
    /\ DOMAIN DB1 = {"accounts", "orders"}
    /\ DOMAIN DB2 = {"accounts", "orders"}
    /\ Len(all_differences) >= 4
    /\ all_differences[1].table_name = "accounts"
    /\ all_differences[Len(all_differences)].table_name = "orders"

MirrorKind(kind) ==
    IF kind = "MISSING_TABLE" THEN "EXTRA_TABLE"
    ELSE IF kind = "EXTRA_TABLE" THEN "MISSING_TABLE"
    ELSE IF kind = "MISSING_COLUMN" THEN "EXTRA_COLUMN"
    ELSE IF kind = "EXTRA_COLUMN" THEN "MISSING_COLUMN"
    ELSE kind

\* what comparing (L2, DB2) against (L1, DB1) returns
Swapped == _compare_tables(L2, DB2, L1, DB1).differences

\* d of one order and e of the other report the same fact
Mirrors(d, e) ==
    /\ e.table_name = d.table_name
    /\ e.column_name = d.column_name
    /\ e.diff_type = MirrorKind(d.diff_type)
    /\ e.db1 = d.db2
    /\ e.db2 = d.db1
    /\ d.diff_type # "COLUMN_MISMATCH" => e.detail = d.detail
    /\ (/\ d.diff_type = "COLUMN_MISMATCH"
        /\ UniqueNames(DB1[d.table_name])
        /\ UniqueNames(DB2[d.table_name]))
       => LET col1 == ColOf(DB1[d.table_name], d.column_name)
              col2 == ColOf(DB2[d.table_name], d.column_name)
          IN  /\ d.detail = MismatchDetail(L1, col1, L2, col2)
              /\ e.detail = MismatchDetail(L2, col2, L1, col1)

\* C9: the two orders of a pair return as many Differences, matched one to
\* one on (table_name, column_name): MISSING_TABLE with EXTRA_TABLE,
\* MISSING_COLUMN with EXTRA_COLUMN, COLUMN_MISMATCH with COLUMN_MISMATCH,
\* the labels and the values of the detail exchanged.
C9_Symmetry ==
    Compared =>
        LET swapped == Swapped
        IN  /\ Len(swapped) = Len(all_differences)
            /\ \A n \in 1..Len(all_differences) :
                 /\ Cardinality({m \in 1..Len(swapped) :
                        /\ swapped[m].table_name = all_differences[n].table_name
                        /\ swapped[m].column_name = all_differences[n].column_name}) = 1
                 /\ \E m \in 1..Len(swapped) : Mirrors(all_differences[n], swapped[m])

\* A single type mismatch besides a column of one side only.
C9_Witness ==
    /\ Compared
    /\ DB1 = [users |-> <<Col("id", "int", "NO")>>]
    /\ DB2 = [users |-> <<Col("email", "text", "YES"), Col("id", "bigint", "NO")>>]
    /\ Len(all_differences) = 2
    /\ all_differences[1].diff_type = "EXTRA_COLUMN"
    /\ all_differences[2].detail = "data_type: A=int vs B=bigint"
    /\ Swapped[1].diff_type = "MISSING_COLUMN"
    /\ Swapped[2].detail = "data_type: B=bigint vs A=int"

-----------------------------------------------------------------------------
(* Properties of a call of generate_diff_report (checked under Spec).      *)

DistinctLabels ==
    \A m, n \in 1..Len(metadata_files) :
        m # n => metadata_files[m].label # metadata_files[n].label

\* the snapshot loaded for entry n
Loaded(n) == metadata_cache[metadata_files[n].filepath]

\* C1: when all the snapshots of a run are the same, the combined
\* difference sequence is empty, whatever the number of entries.
C1_IdenticalSnapshotsNoDiff ==
    (/\ pc = "done"
     /\ \A m, n \in 1..Len(metadata_map) :
            metadata_map[m].metadata = metadata_map[n].metadata)
    => all_differences = <<>>

\* Scenario D: three labels, the same snapshot of two columns under each,
\* read from two files, and the three pairs compared.
C1_Witness ==
    /\ pc = "done"
    /\ Len(metadata_map) = 3
    /\ \A n \in 1..3 :
          metadata_map[n].metadata =
              [users |-> <<Col("id", "int", "NO"), Col("email", "text", "YES")>>]
    /\ opened = [f \in Filepaths |-> 1]
    /\ Len(log) = 3
    /\ all_differences = <<>>

\* the pairs (a, b) with a before b among n entries, and the place of a
\* pair when a ascends and, for each a, b ascends
AllPairs(n) == {p \in (1..n) \X (1..n) : p[1] < p[2]}

PairIndex(p, n) ==
    Cardinality({q \in AllPairs(n) :
                    q[1] < p[1] \/ (q[1] = p[1] /\ q[2] <= p[2])})

PairAt(m, n) == CHOOSE p \in AllPairs(n) : PairIndex(p, n) = m

\* what comparing the m-th pair of the entries returns
Segment(m) ==
    LET p == PairAt(m, Len(metadata_files))
    IN  _compare_tables(metadata_files[p[1]].label, Loaded(p[1]),
                        metadata_files[p[2]].label, Loaded(p[2])).differences

\* the call is past its comparison loops
LoopsOver == pc = "done" \/ error \in {"OSError", "UnicodeEncodeError"}

\* C5: with distinct labels the pairs compared are the pairs (a, b), a
\* before b in input order, each once, a ascending and b ascending for each
\* a; the Differences of a pair carry the label of a as db1 and the label
\* of b as db2; and the combined sequence is the results of the pairs one
\* after the other in that order.
C5_PairEnumeration ==
    (DistinctLabels /\ pc \in {"compare", "done", "error"}) =>
        LET n == Len(metadata_files)
        IN  /\ Len(log) <= Cardinality(AllPairs(n))
            /\ LoopsOver => Len(log) = Cardinality(AllPairs(n))
            /\ \A m \in 1..Len(log) :
                 log[m] = <<metadata_files[PairAt(m, n)[1]].label,
                            metadata_files[PairAt(m, n)[2]].label>>
            /\ error # "KeyError" =>
                 /\ all_differences = Flatten([m \in 1..Len(log) |-> Segment(m)])
                 /\ \A m \in 1..Len(log) : \A d \in Range(Segment(m)) :
                      /\ d.db1 = log[m][1]
                      /\ d.db2 = log[m][2]

\* Three distinct labels, every pair compared, the first and the last with
\* a result.
C5_Witness ==
    /\ pc = "done"
    /\ DistinctLabels
    /\ Len(metadata_files) = 3
    /\ Len(log) = 3
    /\ Segment(1) # <<>>
    /\ Segment(3) # <<>>
    /\ all_differences = Segment(1) \o Segment(2) \o Segment(3)

Malformed(col) ==
    \/ ~HasKey(col, "column_name")
    \/ ~HasKey(col, "data_type")
    \/ ~HasKey(col, "is_nullable")

\* a snapshot with a column descriptor that lacks a required field
MalformedSnapshot(metadata) ==
    \E t \in DOMAIN metadata : \E c \in Range(metadata[t]) : Malformed(c)

\* C7: a call that was given a snapshot with a malformed column descriptor
\* aborts: it does not end with a Difference sequence, and writes no file.
C7_MalformedAborts ==
    (\E n \in 1..Len(metadata_map) : MalformedSnapshot(metadata_map[n].metadata))
    => (pc # "done" /\ ~written)

\* C8: a path is read and parsed with success at most once, the paths in
\* the cache are those parsed once, what a load returned is what the cache
\* holds for the path, and a path in the cache is never opened again and
\* its snapshot never removed or replaced, in this call or a later one.
C8_LoadOnce ==
    /\ [](\A f \in Filepaths :
            /\ parsed[f] <= 1
            /\ parsed[f] <= opened[f]
            /\ f \in DOMAIN metadata_cache <=> parsed[f] = 1)
    /\ [](DistinctLabels =>
            /\ pc = "load" => Len(metadata_map) = k - 1
            /\ \A n \in 1..Len(metadata_map) : metadata_map[n].metadata = Loaded(n))
    /\ [][\A f \in DOMAIN metadata_cache :
            /\ f \in DOMAIN metadata_cache'
            /\ metadata_cache'[f] = metadata_cache[f]
            /\ opened'[f] = opened[f]]_vars

\* A second call loaded three entries, two of them from the same path;
\* that path was opened twice, without success in the first call.
C8_Witness ==
    /\ calls = 2
    /\ pc = "load"
    /\ k = 4
    /\ DistinctLabels
    /\ metadata_files[1].filepath = metadata_files[3].filepath
    /\ metadata_files[1].filepath # metadata_files[2].filepath
    /\ opened[metadata_files[1].filepath] = 2
    /\ opened[metadata_files[2].filepath] = 1
    /\ Loaded(1) # Loaded(2)

\* every load of the current call succeeded
LoadsSucceeded ==
    /\ pc \notin {"idle", "load"}
    /\ error \notin {"FileExistsError", "LoadError"}

\* every pair comparison of the current call completed without an error
ComparisonsCompleted ==
    /\ LoadsSucceeded
    /\ Len(log) = Cardinality(AllPairs(Len(metadata_map)))
    /\ error # "KeyError"

\* C10: at the end of a call the file was written exactly when every load
\* succeeded, every pair comparison completed without an error and the
\* combined sequence is not empty.
C10_WrittenIffCompared ==
    pc \in {"done", "error"} =>
        (written <=> (/\ LoadsSucceeded
                      /\ ComparisonsCompleted
                      /\ all_differences # <<>>))

\* The state that breaks it: every load and every comparison of the call
\* succeeded and found a Difference, opening the file raised, and the call
\* ended with an exception and nothing written.
C10_OpenFailed ==
    /\ pc = "error"
    /\ error = "OSError"
    /\ LoadsSucceeded
    /\ ComparisonsCompleted
    /\ all_differences # <<>>
    /\ ~written
    /\ csv = <<>>

====
